---- MODULE Spec2Model ----
(***************************************************************************)
(* Model of github_branch_manager.py: the staleness filter                 *)
(* (get_prs_branches_to_be_deleted) and the two drivers                    *)
(* (label_stale_branches, delete_stale_branches) of GithubBranchManager,   *)
(* run against a remote host holding repositories, issues / pull requests, *)
(* their labels and the branch references.                                 *)
(*                                                                         *)
(* One process invocation (__main__) is a "run": StartRun builds the       *)
(* manager, then one step per repository prologue (ProcessRepo), one step  *)
(* per loop iteration (LabelPR, DeleteBranch), one step per repository     *)
(* epilogue, and Finish.  Other actors on the remote host (ExtProtect,     *)
(* ExtClose, ExtDeleteRef) and process termination (Kill) are the          *)
(* environment.                                                            *)
(***************************************************************************)
EXTENDS Integers, Sequences, FiniteSets, TLC

\* ------------------------------------------------------------------ bounds

\* Number of process invocations explored.
MaxRuns == 2
\* Number of changes other actors make to the remote host.
MaxExt == 1

\* ------------------------------------------------- organization contents

\* The label names the program uses.
DO_NOT_DELETE == "do-not-delete"
WILL_BE_DELETED == "will-be-deleted-within-a-week"

\* self.org.get_repos(): the repositories, in listing order.
OrgRepos == <<"r1", "r2">>

\* The issues and pull requests of the organization.  Issues 1 and 2 are two
\* pull requests of r1 with the same head branch, the second a day newer;
\* issue 3 is a plain issue of r2 (no pull request behind it); issue 4 is a
\* pull request of r2.
IssueTable == <<
    [repo |-> "r1", number |-> 1, is_pr |-> TRUE,  created |-> 0, head |-> "a"],
    [repo |-> "r1", number |-> 2, is_pr |-> TRUE,  created |-> 1, head |-> "a"],
    [repo |-> "r2", number |-> 1, is_pr |-> FALSE, created |-> 1, head |-> "-"],
    [repo |-> "r2", number |-> 2, is_pr |-> TRUE,  created |-> 0, head |-> "c"] >>

Issues == DOMAIN IssueTable

\* The branch references that exist when the model starts.
InitRefs == {<<"r1", "a">>, <<"r2", "c">>}

\* date.today() - relativedelta(hours=date_period), as a day number: the
\* cutoffs explored.  Issues 2 and 3 are created on day 1.
EndDates == {1, 2}

Actions == {"label", "delete"}

Running == {"repo", "loop"}
Ended == {"done", "aborted"}

VARIABLES
    labels,             \* remote: issue -> set of label names
    open,               \* remote: the set of open issues
    refs,               \* remote: the branch references <<repo, branch>>
    action,             \* namespace.action of the current run
    dry_run,            \* self.dry_run
    end_date,           \* self.end_date
    pc,                 \* position of the current run
    repo_idx,           \* position of `for repo in self.org.get_repos()`
    prs_to_label,       \* filter result: pull requests (issue ids)
    branches_to_delete, \* filter result: head branch names
    k,                  \* position of the per-candidate loop
    branches_labeled,   \* label driver's per-repository report
    log,                \* log records emitted by the current run
    abort_cause,        \* the call whose exception ended the run
    mutating_calls,     \* set_labels / delete calls issued by the current run
    runs,               \* history: runs started
    ext,                \* history: remote changes by other actors
    changed_cur,        \* history: another actor acted since the run started
    ever_labeled,       \* history: issues a label pass called set_labels on
    labels0,            \* history: labels when the current run started
    prev                \* history: summary of the previous run

vars == <<labels, open, refs, action, dry_run, end_date, pc, repo_idx,
          prs_to_label, branches_to_delete, k, branches_labeled, log,
          abort_cause, mutating_calls, runs, ext, changed_cur, ever_labeled,
          labels0, prev>>

remote == <<labels, open, refs>>
manager == <<action, dry_run, end_date>>
locals == <<prs_to_label, branches_to_delete, k, branches_labeled>>

Range(s) == {s[i] : i \in DOMAIN s}

\* ------------------------------------------------------ staleness filter

\* created:<{self.end_date.isoformat()} (mutant: not strict)
CreatedBeforeOrAt(created, cutoff) == created <= cutoff

CreatedBefore(created, cutoff) == created < cutoff

\* The 'older' query with an extra label predicate (mutant).
query_older_labelled(i, r) ==
    /\ IssueTable[i].repo = r
    /\ i \in open
    /\ CreatedBefore(IssueTable[i].created, end_date)
    /\ WILL_BE_DELETED \in labels[i]

\* repo:R is:open (is:issue OR is:pull-request) created:<D
query_older_issues(i, r) ==
    /\ IssueTable[i].repo = r
    /\ i \in open
    /\ (~IssueTable[i].is_pr \/ IssueTable[i].is_pr)
    /\ CreatedBefore(IssueTable[i].created, end_date)

\* repo:R is:open created:<D label:do-not-delete
query_issues_labelled_do_not_delete(i, r) ==
    /\ IssueTable[i].repo = r
    /\ i \in open
    /\ CreatedBefore(IssueTable[i].created, end_date)
    /\ DO_NOT_DELETE \in labels[i]

IssueIds == [i \in Issues |-> i]

\* list(self.github_obj.search_issues(...)): every search builds new objects;
\* obj is the object's identity, url names the issue it stands for.
Fetch(ids, base) ==
    [n \in 1..Len(ids) |-> [url |-> ids[n], obj |-> base + n]]

issues_older_than_year(r) ==
    LET Match(i) == query_older_issues(i, r)
    IN  Fetch(SelectSeq(IssueIds, Match), 0)

do_not_del_issues(r) ==
    LET Match(i) == query_issues_labelled_do_not_delete(i, r)
    IN  Fetch(SelectSeq(IssueIds, Match), Len(IssueTable))

\* Comparison of two objects by object identity (mutant).
IssueSame(x, y) == x.obj = y.obj

\* x == y of two Issue objects: same class and same url.
IssueEq(x, y) == x.url = y.url

\* [x for x in issues_older_than_year if x not in do_not_del_issues]
issues_to_be_removed(r) ==
    LET dnd == do_not_del_issues(r)
        Keep(x) == ~\E n \in DOMAIN dnd : IssueEq(x, dnd[n])
    IN  SelectSeq(issues_older_than_year(r), Keep)

\* prs.as_pull_request() raises for an issue that is no pull request.
ConversionFails(r) ==
    \E x \in Range(issues_to_be_removed(r)) : ~IssueTable[x.url].is_pr

\* return prs_to_label, branches_to_delete
FilterPRs(r) ==
    LET rem == issues_to_be_removed(r)
    IN  [n \in 1..Len(rem) |-> rem[n].url]

FilterBranches(r) ==
    LET rem == issues_to_be_removed(r)
    IN  [n \in 1..Len(rem) |-> IssueTable[rem[n].url].head]

\* ---------------------------------------------------------------- remote

\* repo.get_branches().totalCount
TotalBranches(r) == Cardinality({ref \in refs : ref[1] = r})

\* branch.object.sha
Sha(r, b) == <<"sha", r, b>>

\* A label call that removes the label when it is already there (mutant).
ToggleLabels(old, new) == IF new \subseteq old THEN old \ new ELSE new

\* pull_req.set_labels(...): the issue's labels become the given ones.
SetLabels(old, new) == new

\* A guard that ignores the dry-run flag (mutant).
LabelAlways(d) == TRUE

\* `if not self.dry_run:` of the label driver, of the delete driver.
LabelApplies(d) == ~d

DeleteApplies(d) == ~d

\* ------------------------------------------------------------------ init

NoPrev ==
    [action |-> "none", dry_run |-> FALSE, end_date |-> 0, log |-> <<>>,
     outcome |-> "none", mutating_calls |-> 0, disturbed |-> FALSE]

\* The labels the issues carry when the model starts: pull request 1 carries
\* an unrelated label.
InitLabels == [i \in Issues |-> IF i = 1 THEN {"bug"} ELSE {}]

Init ==
    /\ labels = InitLabels
    /\ open = Issues
    /\ refs = InitRefs
    /\ action = "label"
    /\ dry_run = FALSE
    /\ end_date = 0
    /\ pc = "idle"
    /\ repo_idx = 1
    /\ prs_to_label = <<>>
    /\ branches_to_delete = <<>>
    /\ k = 1
    /\ branches_labeled = <<>>
    /\ log = <<>>
    /\ abort_cause = "none"
    /\ mutating_calls = 0
    /\ runs = 0
    /\ ext = 0
    /\ changed_cur = FALSE
    /\ ever_labeled = {}
    /\ labels0 = labels
    /\ prev = NoPrev

\* --------------------------------------------------------------- program

\* __main__: build the manager and enter the selected driver.
StartRun(a, d, e) ==
    /\ pc \notin Running
    /\ runs < MaxRuns
    /\ runs' = runs + 1
    /\ action' = a
    /\ dry_run' = d
    /\ end_date' = e
    /\ pc' = "repo"
    /\ repo_idx' = 1
    /\ prs_to_label' = <<>>
    /\ branches_to_delete' = <<>>
    /\ k' = 1
    /\ branches_labeled' = <<>>
    /\ log' = <<>>
    /\ abort_cause' = "none"
    /\ mutating_calls' = 0
    /\ changed_cur' = FALSE
    /\ labels0' = labels
    /\ prev' = IF pc = "idle" THEN NoPrev
               ELSE [action |-> action, dry_run |-> dry_run,
                     end_date |-> end_date, log |-> log, outcome |-> pc,
                     mutating_calls |-> mutating_calls,
                     disturbed |-> changed_cur]
    /\ UNCHANGED <<remote, ext, ever_labeled>>

\* Top of a driver's repository loop, up to its per-candidate loop.
ProcessRepo ==
    /\ pc = "repo"
    /\ repo_idx <= Len(OrgRepos)
    /\ LET r == OrgRepos[repo_idx]
           head_log == <<<<"Processing repository", r>>,
                         <<"Total number of branches", r, TotalBranches(r)>>,
                         <<"Getting branches to be deleted", r>>>>
       IN  IF ConversionFails(r)
           THEN /\ pc' = "aborted"
                /\ abort_cause' = "as_pull_request"
                /\ log' = log \o head_log
                /\ UNCHANGED locals
           ELSE /\ pc' = "loop"
                /\ prs_to_label' = FilterPRs(r)
                /\ branches_to_delete' = FilterBranches(r)
                /\ k' = 1
                /\ branches_labeled' = <<>>
                /\ log' = log \o head_log \o
                          (IF action = "delete"
                           THEN <<<<"Deleting branches older than", end_date, r>>>>
                           ELSE <<>>)
                /\ UNCHANGED abort_cause
    /\ UNCHANGED <<remote, manager, repo_idx, mutating_calls, runs, ext,
                   changed_cur, ever_labeled, labels0, prev>>

\* One iteration of `for pr in prs_to_be_labelled`.
LabelPR ==
    /\ pc = "loop"
    /\ action = "label"
    /\ k <= Len(prs_to_label)
    /\ LET i == prs_to_label[k]
           r == OrgRepos[repo_idx]
       IN  /\ log' = Append(log, <<"Applying label on PR", IssueTable[i].number, r>>)
           /\ IF LabelApplies(dry_run)
              THEN /\ labels' = [labels EXCEPT
                                   ![i] = SetLabels(labels[i], {WILL_BE_DELETED})]
                   /\ branches_labeled' = Append(branches_labeled, IssueTable[i].head)
                   /\ mutating_calls' = mutating_calls + 1
                   /\ ever_labeled' = ever_labeled \cup {i}
              ELSE UNCHANGED <<labels, branches_labeled, mutating_calls, ever_labeled>>
    /\ k' = k + 1
    /\ UNCHANGED <<open, refs, manager, pc, repo_idx, prs_to_label,
                   branches_to_delete, abort_cause, runs, ext, changed_cur,
                   labels0, prev>>

\* After the loop: the per-repository report, then the next repository.
EndLabelRepo ==
    /\ pc = "loop"
    /\ action = "label"
    /\ k > Len(prs_to_label)
    /\ log' = Append(log, <<"Branches labeled", OrgRepos[repo_idx], branches_labeled>>)
    /\ repo_idx' = repo_idx + 1
    /\ pc' = "repo"
    /\ UNCHANGED <<remote, manager, locals, abort_cause, mutating_calls, runs,
                   ext, changed_cur, ever_labeled, labels0, prev>>

\* One iteration of `for branch_str in branches_to_be_deleted`.
DeleteBranch ==
    /\ pc = "loop"
    /\ action = "delete"
    /\ k <= Len(branches_to_delete)
    /\ LET r == OrgRepos[repo_idx]
           b == branches_to_delete[k]
       IN  IF <<r, b>> \notin refs
           THEN /\ pc' = "aborted"
                /\ abort_cause' = "get_git_ref"
                /\ UNCHANGED <<refs, log, k, mutating_calls>>
           ELSE /\ log' = Append(log, <<"branch_name", b, Sha(r, b)>>)
                /\ IF DeleteApplies(dry_run)
                   THEN /\ refs' = refs \ {<<r, b>>}
                        /\ mutating_calls' = mutating_calls + 1
                   ELSE UNCHANGED <<refs, mutating_calls>>
                /\ k' = k + 1
                /\ UNCHANGED <<pc, abort_cause>>
    /\ UNCHANGED <<labels, open, manager, repo_idx, prs_to_label,
                   branches_to_delete, branches_labeled, runs, ext,
                   changed_cur, ever_labeled, labels0, prev>>

EndDeleteRepo ==
    /\ pc = "loop"
    /\ action = "delete"
    /\ k > Len(branches_to_delete)
    /\ repo_idx' = repo_idx + 1
    /\ pc' = "repo"
    /\ UNCHANGED <<remote, manager, locals, log, abort_cause, mutating_calls,
                   runs, ext, changed_cur, ever_labeled, labels0, prev>>

\* The repository loop is exhausted: the driver returns.
Finish ==
    /\ pc = "repo"
    /\ repo_idx > Len(OrgRepos)
    /\ pc' = "done"
    /\ UNCHANGED <<remote, manager, repo_idx, locals, log, abort_cause,
                   mutating_calls, runs, ext, changed_cur, ever_labeled,
                   labels0, prev>>

\* ----------------------------------------------------------- environment

\* The process is terminated in the middle of a run.
Kill ==
    /\ pc \in Running
    /\ pc' = "killed"
    /\ UNCHANGED <<remote, manager, repo_idx, locals, log, abort_cause,
                   mutating_calls, runs, ext, changed_cur, ever_labeled,
                   labels0, prev>>

\* Somebody puts do-not-delete on an issue.
ExtProtect(i) ==
    /\ pc \notin Running
    /\ ext < MaxExt
    /\ DO_NOT_DELETE \notin labels[i]
    /\ labels' = [labels EXCEPT ![i] = @ \cup {DO_NOT_DELETE}]
    /\ ext' = ext + 1
    /\ changed_cur' = TRUE
    /\ UNCHANGED <<open, refs, manager, pc, repo_idx, locals, log, abort_cause,
                   mutating_calls, runs, ever_labeled, labels0, prev>>

\* Somebody closes an issue.
ExtClose(i) ==
    /\ pc \notin Running
    /\ ext < MaxExt
    /\ i \in open
    /\ open' = open \ {i}
    /\ ext' = ext + 1
    /\ changed_cur' = TRUE
    /\ UNCHANGED <<labels, refs, manager, pc, repo_idx, locals, log,
                   abort_cause, mutating_calls, runs, ever_labeled, labels0, prev>>

\* Somebody deletes a branch, between runs or while a driver is in its
\* per-candidate loop.
ExtDeleteRef(ref) ==
    /\ pc # "repo"
    /\ ext < MaxExt
    /\ ref \in refs
    /\ refs' = refs \ {ref}
    /\ ext' = ext + 1
    /\ changed_cur' = TRUE
    /\ UNCHANGED <<labels, open, manager, pc, repo_idx, locals, log,
                   abort_cause, mutating_calls, runs, ever_labeled, labels0, prev>>

Next ==
    \/ \E a \in Actions, d \in BOOLEAN, e \in EndDates : StartRun(a, d, e)
    \/ ProcessRepo
    \/ LabelPR
    \/ EndLabelRepo
    \/ DeleteBranch
    \/ EndDeleteRepo
    \/ Finish
    \/ Kill
    \/ \E i \in Issues : ExtProtect(i)
    \/ \E i \in Issues : ExtClose(i)
    \/ \E ref \in InitRefs : ExtDeleteRef(ref)

Spec == Init /\ [][Next]_vars

\* ---------------------------------------------------------------- claims

\* The repository the current run is working on.
CurRepo == OrgRepos[repo_idx]

\* The step in which get_prs_branches_to_be_deleted returns its two lists.
FilterReturns == pc = "repo" /\ pc' = "loop"

\* A step of the program (the environment changes none of these).
ProgStep == pc' # pc \/ k' # k \/ repo_idx' # repo_idx

\* Issues of r that are open, created strictly before the cutoff and do not
\* carry do-not-delete, stated from the remote state alone.
StaleUnprotected(r) ==
    {i \in Issues : /\ IssueTable[i].repo = r
                    /\ i \in open
                    /\ IssueTable[i].created < end_date
                    /\ DO_NOT_DELETE \notin labels[i]}

HasEntry(l, kind) == \E n \in DOMAIN l : l[n][1] = kind

\* C1: the list the filter returns holds no issue that carries do-not-delete
\* when the queries are made, although the 'older' and the 'protected'
\* results are separately fetched objects.
C1_ProtectedNeverCandidate ==
    [][FilterReturns =>
         \A n \in DOMAIN prs_to_label' :
             DO_NOT_DELETE \notin labels[prs_to_label'[n]]]_vars

\* C1 witness: the filter has just returned a non-empty list for a repository
\* that holds an open, old enough, protected issue, which is not in the list.
C1_Witness ==
    /\ pc = "loop" /\ k = 1 /\ ~changed_cur
    /\ prs_to_label # <<>>
    /\ \E i \in Issues :
          /\ IssueTable[i].repo = CurRepo
          /\ i \in open
          /\ IssueTable[i].created < end_date
          /\ DO_NOT_DELETE \in labels[i]
          /\ i \notin Range(prs_to_label)

\* C2: a step of a dry run changes no label, no branch reference and no
\* issue state, and the run has issued no mutating call.
C2_DryRunNoMutation ==
    [][(ProgStep /\ dry_run') =>
         /\ labels' = labels
         /\ refs' = refs
         /\ open' = open
         /\ mutating_calls' = 0]_vars

\* C2 witness: a complete dry delete run that resolved a branch, after a
\* complete dry label run that went through a candidate.
C2_Witness ==
    /\ pc = "done" /\ dry_run /\ action = "delete"
    /\ HasEntry(log, "branch_name")
    /\ refs = InitRefs
    /\ prev.outcome = "done" /\ prev.dry_run /\ prev.action = "label"
    /\ HasEntry(prev.log, "Applying label on PR")

\* C3 (as claimed): a branch whose reference no longer exists is skipped;
\* the run is never ended by the failed lookup.
C3_MissingRefSkipped == ~(pc = "aborted" /\ abort_cause = "get_git_ref")

\* C4 (as claimed): the branch list of a delete run never names the head
\* branch of an open pull request that carries do-not-delete.
C4_ProtectedBranchNotListed ==
    [][(FilterReturns /\ action = "delete") =>
         \A n \in DOMAIN branches_to_delete' :
             ~\E i \in Issues :
                 /\ IssueTable[i].repo = CurRepo
                 /\ IssueTable[i].is_pr
                 /\ i \in open
                 /\ IssueTable[i].head = branches_to_delete'[n]
                 /\ DO_NOT_DELETE \in labels[i]]_vars

\* C5: a branch is in the returned branch list exactly when it is the head
\* branch of an open, unprotected pull request created strictly before the
\* cutoff; nothing listed was created at or after the cutoff.
C5_BranchListedIffStalePR ==
    [][FilterReturns =>
         /\ Range(branches_to_delete') =
                {IssueTable[i].head :
                    i \in {j \in StaleUnprotected(CurRepo) : IssueTable[j].is_pr}}
         /\ \A n \in DOMAIN prs_to_label' :
                IssueTable[prs_to_label'[n]].created < end_date]_vars

\* C5 witness: the filter has just returned a non-empty branch list and left
\* out an open pull request created exactly at the cutoff.
C5_Witness ==
    /\ pc = "loop" /\ k = 1 /\ ~changed_cur
    /\ branches_to_delete # <<>>
    /\ \E i \in Issues :
          /\ IssueTable[i].repo = CurRepo
          /\ IssueTable[i].is_pr
          /\ i \in open
          /\ IssueTable[i].created = end_date
          /\ i \notin Range(prs_to_label)

\* The current run and the previous one are the same driver, not dry, with
\* the same cutoff, and nobody else touched the remote host meanwhile.
SameRunTwice(a) ==
    /\ action = a /\ ~dry_run /\ ~changed_cur
    /\ prev.action = a /\ ~prev.dry_run /\ ~prev.disturbed
    /\ prev.end_date = end_date

\* C6: when the label driver has run a second time right after a first run,
\* every label set is what the first run left.
C6_LabelTwiceSameLabels ==
    (pc \in Ended /\ SameRunTwice("label") /\ prev.outcome \in Ended)
        => labels = labels0

\* C6 witness: two complete label runs in a row, each of which labeled.
C6_Witness ==
    /\ pc = "done" /\ SameRunTwice("label") /\ prev.outcome = "done"
    /\ mutating_calls > 0 /\ prev.mutating_calls > 0

\* C7 (as claimed): a complete dry run followed by a complete real run of
\* the same driver on the same remote state emit the same log records.
C7_SameLogDryOrNot ==
    (/\ pc = "done" /\ ~dry_run /\ ~changed_cur
     /\ prev.outcome = "done" /\ prev.dry_run /\ ~prev.disturbed
     /\ prev.action = action /\ prev.end_date = end_date)
        => log = prev.log

\* C8 (as claimed): a step of the label driver changes no branch reference
\* and removes no label; it can only add will-be-deleted-within-a-week.
C8_LabelRunOnlyAdds ==
    [][(ProgStep /\ action' = "label") =>
         /\ refs' = refs
         /\ \A i \in Issues :
               /\ labels[i] \subseteq labels'[i]
               /\ labels'[i] \subseteq labels[i] \cup {WILL_BE_DELETED}]_vars

\* C9: what a delete run lists for a repository is decided by the remote
\* state of that moment alone (open, created before the cutoff, no
\* do-not-delete), whether or not a label pass labeled the issue before.
C9_DeleteListsFromCurrentState ==
    [][(FilterReturns /\ action = "delete") =>
         \A i \in Issues :
             IssueTable[i].repo = CurRepo =>
                 (i \in Range(prs_to_label') <=>
                      (/\ i \in open
                       /\ IssueTable[i].created < end_date
                       /\ DO_NOT_DELETE \notin labels[i]))]_vars

\* C9 witness: a delete run's list leaves out a pull request that a label
\* pass labeled and that was protected afterwards, and holds a pull request
\* no label pass ever labeled.
C9_Witness ==
    /\ pc = "loop" /\ k = 1 /\ action = "delete" /\ ~changed_cur
    /\ \E i, j \in Issues :
          /\ IssueTable[i].repo = CurRepo /\ IssueTable[j].repo = CurRepo
          /\ i \in ever_labeled
          /\ DO_NOT_DELETE \in labels[i]
          /\ i \notin Range(prs_to_label)
          /\ j \notin ever_labeled
          /\ WILL_BE_DELETED \notin labels[j]
          /\ j \in Range(prs_to_label)

\* C10 (as claimed): after a delete run that was terminated having deleted
\* something, a second delete run on the otherwise unchanged remote state
\* completes and leaves no candidate branch behind.
C10_RerunCompletes ==
    (/\ pc \in Ended /\ SameRunTwice("delete")
     /\ prev.outcome = "killed" /\ prev.mutating_calls > 0
     /\ \A i \in Issues :
           i \in StaleUnprotected(IssueTable[i].repo) => IssueTable[i].is_pr)
        => /\ pc = "done"
           /\ \A i \in Issues :
                 i \in StaleUnprotected(IssueTable[i].repo) =>
                     <<IssueTable[i].repo, IssueTable[i].head>> \notin refs

====
